---- MODULE Spec2Model ----
(***************************************************************************)
(* FaceIDHub (727aps/RecogFace): the browser enrollment session            *)
(* (EnrollFace), the live recognition frame callback (LiveRecognition)     *)
(* and the Express/SQLite gallery server (backend/server.js).              *)
(*                                                                         *)
(* The specifications share the variables:                                 *)
(*   SpecEnroll  one handleEnroll session and the server's answer to it    *)
(*   SpecMatch   detectAndRecognize as a function of its closure           *)
(*   Spec        the HTTP routes of the gallery server                     *)
(*   SpecStore   the database file between enrollments and loads           *)
(*   SpecNotify  one chain of live frames with its log requests            *)
(*   SpecBatch   BatchGallery.processImages                                *)
(*   SpecApp     the App shell: consent, reload, tabs                      *)
(*   SpecClient  an enrollment, then the live tab: what the client sends   *)
(*   SpecReject  enroll requests and the name check of handleEnroll        *)
(*   SpecLive    the Start and Stop buttons of LiveRecognition             *)
(*   SpecFrames  the frame chain of detectAndRecognize, step by step       *)
(***************************************************************************)
EXTENDS Integers, Sequences, FiniteSets, TLC

VARIABLES
    \* ---- EnrollFace component (src/unnamed/part_001:17-124)
    D,               \* length of the descriptors the embedder returns
    modelsLoaded,    \* prop modelsLoaded
    personName,      \* useState personName (a tuple of characters)
    isCapturing,     \* useState isCapturing
    status,          \* useState status
    faces,           \* useState faces: number of thumbnails shown
    epc,             \* position of the async handleEnroll
    frameIdx,        \* loop variable i of handleEnroll
    collectedFaces,  \* local collectedFaces: the descriptors pushed so far
    enrollReq,       \* the axios.post('/api/enroll') in flight: << >> or <<body>>
    enrollResp,      \* its outcome: 0 while none, else the HTTP status (599: no answer)
    sent,            \* every request body the client has posted
    \* ---- server (src/backend/server.js)
    db,              \* whether new Database(...) succeeded
    foreignKeys,     \* whether the SQLite build enforces FOREIGN KEY
    persons,         \* table persons, in rowid order
    sessions,        \* table sessions, in rowid order
    uuidCount,       \* number of uuidv4() values handed out
    now,             \* CURRENT_TIMESTAMP, in seconds
    reqCount,        \* number of requests the server has answered
    lastResp,        \* the last request with its answer and the table before it
    acked,           \* history: the enrollments answered with success, in order
    removals,        \* history: whether a DELETE has been served
    \* ---- LiveRecognition component (ConsentModal.jsx:120-247)
    lrPersons,       \* useState persons
    recognizedFaces, \* useState recognizedFaces
    logPosts,        \* axios.post('/api/logs') requests in flight
    frameCount,      \* number of frames detectAndRecognize has processed
    lastFrame,       \* the last processed frame, << >> or <<frame>>
    logResp,         \* outcome of the awaited log request: 0 while none, else the status
    logFailed,       \* history: the frame whose log request was last caught failing (0: none)
    isActive,        \* useState isActive
    lrStatus,        \* useState status of LiveRecognition
    lrpc,            \* position of the detectAndRecognize call in progress
    lrClosure,       \* the closure of that call: << >> or <<c>>
    \* ---- BatchGallery component (src/unnamed/part_001:270-357)
    files,           \* useState files: the names of the dropped files
    processing,      \* useState processing
    results,         \* useState results
    bpc,             \* position of the async processImages
    batchIdx,        \* loop variable i of processImages
    jobLen,          \* files.length in the closure of the running processImages
    processedResults,\* local processedResults
    \* ---- App shell (src/frontend/src/App.jsx:48-93, ConsentModal.jsx:15-22)
    localStorage,    \* localStorage item 'faceidhub_consent': "null" or "accepted"
    mounted,         \* whether App's mount effect has run since the page was loaded
    consentGiven,    \* useState consentGiven
    accepted,        \* ConsentModal's useState accepted (the checkbox)
    tabValue         \* useState tabValue

enrollVars == <<D, modelsLoaded, personName, isCapturing, status, faces, epc,
                frameIdx, collectedFaces, enrollReq, enrollResp, sent>>
serverVars == <<db, foreignKeys, persons, sessions, uuidCount, now,
                reqCount, lastResp, acked, removals>>
liveVars   == <<lrPersons, recognizedFaces, logPosts, frameCount, lastFrame,
                logResp, logFailed, isActive, lrStatus, lrpc, lrClosure>>
batchVars  == <<files, processing, results, bpc, batchIdx, jobLen,
                processedResults>>
appVars    == <<localStorage, mounted, consentGiven, accepted, tabValue>>
uiVars     == <<batchVars, appVars>>
vars       == <<enrollVars, serverVars, liveVars, uiVars>>

\* ------------------------------------------------------------------ bounds
\* at most this many frames of one session show the bright face
MaxBright == 1
\* rows the persons table can take before an INSERT fails (disk full)
MaxPersons == 2
\* requests the server answers in one behaviour
MaxRequests == 4
\* seconds the clock advances in one behaviour
MaxClock == 1
\* live frames processed in one behaviour
MaxFrames == 2
\* files dropped on the batch gallery in one behaviour
MaxFiles == 3

\* --------------------------------------------------------------- constants
targetFrames == 15
AvgDim == 128
Dim512 == 512
\* the confidence floor 0.6, in tenths
ConfidenceFloor == 6

\* ------------------------------------------------------------------ Float32
\* Values are written in units of 2^-24, so 2^24 stands for 1.0. A Float32 is
\* a dyadic rational [num, sh] = num / 2^sh in lowest terms (sh = 0 or num odd).
RECURSIVE Pow2(_)
Pow2(k) == IF k = 0 THEN 1 ELSE 2 * Pow2(k - 1)

Two24 == Pow2(24)

\* n / d rounded to the nearest integer, ties to even (n >= 0, d > 0)
RoundDiv(n, d) ==
    LET q == n \div d
        r == n % d
    IN  IF 2 * r < d THEN q
        ELSE IF 2 * r > d THEN q + 1
        ELSE IF q % 2 = 0 THEN q ELSE q + 1

\* the exponent k for which n is rounded to a multiple of 2^k: 24 significant bits
RECURSIVE Excess(_)
Excess(n) == IF n < Two24 THEN 0 ELSE 1 + Excess(n \div 2)

\* storing the integer n (n >= 0) into a Float32Array element
Fround(n) ==
    LET k == Excess(n)
    IN  IF k = 0 THEN n ELSE Pow2(k) * RoundDiv(n, Pow2(k))

RECURSIVE Reduce(_, _)
Reduce(num, sh) ==
    IF num = 0 THEN [num |-> 0, sh |-> 0]
    ELSE IF sh > 0 /\ num % 2 = 0 THEN Reduce(num \div 2, sh - 1)
    ELSE [num |-> num, sh |-> sh]

\* the k >= 0 with 2^23 * n <= s * 2^k < 2^24 * n, or 0 when s >= 2^23 * n
RECURSIVE Shift(_, _)
Shift(s, n) == IF s * 2 < Two24 * n THEN 1 + Shift(s * 2, n) ELSE 0

\* avgDescriptor[j] /= n for an integer-valued element s: the double quotient
\* stored back as Float32. (The quotient is never within double precision of a
\* Float32 midpoint unless it is one, so rounding once to 24 bits is exact.)
Fdiv(s, n) ==
    IF s = 0 THEN [num |-> 0, sh |-> 0]
    ELSE LET e == Excess(s \div n)
             k == Shift(s, n)
         IN  IF e > 0
             THEN [num |-> Pow2(e) * RoundDiv(s, n * Pow2(e)), sh |-> 0]
             ELSE Reduce(RoundDiv(s * Pow2(k), n), k)

\* ------------------------------------------------------------- descriptors
\* The embedder's output for a frame: no face, a failure, or the descriptor
\* of the face in view. Two faces are enough to make sums round: the steady
\* face has small coordinates, the bright one has coordinates equal to 1.0.
Seeds == {"steady", "bright"}

\* coordinate j (0-based) of the descriptor of a seed
Coord(seed, j) ==
    IF seed = "bright"
    THEN (IF j % 2 = 0 THEN Two24 ELSE 5 + (j % 3))
    ELSE (IF j % 2 = 0 THEN 1 + (j % 3) ELSE 3)

Dims == {AvgDim, Dim512}

\* --------------------------------------------------------------- aggregation
\* collectedFaces.forEach(descriptor => avgDescriptor[j] += descriptor[j])
\* a slip: avgDescriptor[j] = descriptor[j] in place of +=
AccumulateLast(samples, j, n) ==
    IF n = 0 THEN 0 ELSE Fround(Coord(samples[n], j))

\* element j after the first n samples have been added, each sum stored as Float32
RECURSIVE Accumulate(_, _, _)
Accumulate(samples, j, n) ==
    IF n = 0 THEN 0
    ELSE Fround(Accumulate(samples, j, n - 1) + Coord(samples[n], j))

\* a slip: the sums divided by targetFrames, not by collectedFaces.length
AverageOverTarget(samples) ==
    [j \in 1..AvgDim |-> Fdiv(Accumulate(samples, j - 1, Len(samples)), targetFrames)]

\* the Float32Array(128) after both loops, as a sequence indexed 1..128
Average(samples) ==
    [j \in 1..AvgDim |-> Fdiv(Accumulate(samples, j - 1, Len(samples)), Len(samples))]

\* crypto.subtle.digest('SHA-256', avgDescriptor) in hex: a digest is
\* modelled by the bytes it was taken of (no collisions)
Sha256Hex(arr) == <<"sha256", arr>>

\* a slip: 60% in place of 70%
InsufficientSixty(n) == n * 10 < targetFrames * 6

\* collectedFaces.length < targetFrames * 0.7
Insufficient(n) == n * 10 < targetFrames * 7

\* ------------------------------------------------------------------- names
\* String.prototype.trim on a tuple of characters
RECURSIVE TrimLeft(_)
TrimLeft(s) ==
    IF s # << >> /\ Head(s) = " " THEN TrimLeft(Tail(s)) ELSE s

RECURSIVE TrimRight(_)
TrimRight(s) ==
    IF s # << >> /\ s[Len(s)] = " " THEN TrimRight(SubSeq(s, 1, Len(s) - 1)) ELSE s

\* a slip: the name is taken as typed
TrimNothing(s) == s

Trim(s) == TrimRight(TrimLeft(s))

\* what the user can type into the name field
TypedNames == { << >>, <<" ">>, <<" ", "b">> }

\* ------------------------------------------------------------------ server
\* JavaScript's !x for a field of a JSON body: missing, or the empty string
Falsy(body, f) == f \notin DOMAIN body \/ body[f] = << >>

NoResp == [route |-> "none", status |-> 0, id |-> 0, before |-> << >>]

PersonIds(table) == { table[k].id : k \in 1..Len(table) }

\* outcomes of a statement's run(): it completes, or SQLite raises an I/O error
IoFailures == {"none", "first", "second"}

\* a slip: the schema as it would be with name TEXT NOT NULL UNIQUE
ViolatesConstraintUniqueName(row) ==
    \/ row.id \in PersonIds(persons)
    \/ \E k \in 1..Len(persons) : persons[k].name = row.name

\* the constraints of table persons an INSERT can violate: id TEXT PRIMARY
\* KEY; name and encoding_hash are NOT NULL (the handler has answered 400 for
\* those) and carry no UNIQUE
ViolatesConstraint(row) == row.id \in PersonIds(persons)

\* app.post('/api/enroll'): fail names the statement that raises, if any.
\* acked records what res.json({success: true, personId}) told the client,
\* until the first DELETE.
PostEnroll(body, fail) ==
    /\ reqCount' = reqCount + 1
    /\ UNCHANGED <<db, foreignKeys, now, removals>>
    /\ IF Falsy(body, "name") \/ Falsy(body, "encodingHash")
       THEN /\ lastResp' = [route |-> "POST /api/enroll", status |-> 400,
                            id |-> 0, before |-> persons]
            /\ UNCHANGED <<persons, sessions, uuidCount>>
       ELSE LET personId == uuidCount + 1
                row == [id |-> personId, name |-> body.name,
                        encoding_hash |-> body.encodingHash, created_at |-> now]
                log == [id |-> uuidCount + 2, person_id |-> personId,
                        action |-> "enroll"]
            IN  IF ~db
                THEN /\ lastResp' = [route |-> "POST /api/enroll", status |-> 200,
                                     id |-> personId, before |-> persons]
                     /\ uuidCount' = uuidCount + 1
                     /\ UNCHANGED <<persons, sessions>>
                ELSE IF \/ fail = "first"
                        \/ Len(persons) >= MaxPersons
                        \/ ViolatesConstraint(row)
                THEN /\ lastResp' = [route |-> "POST /api/enroll", status |-> 500,
                                     id |-> 0, before |-> persons]
                     /\ uuidCount' = uuidCount + 1
                     /\ UNCHANGED <<persons, sessions>>
                ELSE IF fail = "second"
                THEN /\ lastResp' = [route |-> "POST /api/enroll", status |-> 500,
                                     id |-> 0, before |-> persons]
                     /\ persons' = Append(persons, row)
                     /\ uuidCount' = uuidCount + 2
                     /\ UNCHANGED sessions
                ELSE /\ lastResp' = [route |-> "POST /api/enroll", status |-> 200,
                                     id |-> personId, before |-> persons]
                     /\ persons' = Append(persons, row)
                     /\ sessions' = Append(sessions, log)
                     /\ uuidCount' = uuidCount + 2
    /\ acked' = IF lastResp'.status = 200 /\ ~removals
                THEN Append(acked, [id |-> lastResp'.id, name |-> body.name,
                                    encoding_hash |-> body.encodingHash])
                ELSE acked

\* CURRENT_TIMESTAMP moves on by a second
Tick ==
    /\ now < MaxClock
    /\ now' = now + 1
    /\ UNCHANGED <<db, foreignKeys, persons, sessions, uuidCount, reqCount, lastResp,
                   acked, removals>>
    /\ UNCHANGED <<enrollVars, liveVars, uiVars>>

\* the table without the rows whose id is id
RECURSIVE DeleteWhereId(_, _)
DeleteWhereId(table, id) ==
    IF table = << >> THEN << >>
    ELSE IF Head(table).id = id THEN DeleteWhereId(Tail(table), id)
    ELSE <<Head(table)>> \o DeleteWhereId(Tail(table), id)

\* FOREIGN KEY (person_id) REFERENCES persons(id): some sessions row refers to id
Referenced(id) == \E k \in 1..Len(sessions) : sessions[k].person_id = id

\* app.delete('/api/persons/:id'): fail names the statement that raises, if any.
\* With foreign keys enforced SQLite itself raises on a DELETE of a person a
\* sessions row refers to, and on the INSERT of a sessions row for the person
\* just deleted.
DeletePerson(id, fail) ==
    /\ reqCount' = reqCount + 1
    /\ removals' = TRUE
    /\ acked' = << >>
    /\ UNCHANGED <<db, foreignKeys, now>>
    /\ LET resp(code) == [route |-> "DELETE /api/persons", status |-> code,
                          id |-> id, before |-> persons]
           changes == Cardinality({k \in 1..Len(persons) : persons[k].id = id})
           log == [id |-> uuidCount + 1, person_id |-> id, action |-> "delete"]
       IN  IF ~db
           THEN /\ lastResp' = resp(200)
                /\ UNCHANGED <<persons, sessions, uuidCount>>
           ELSE IF fail = "first" \/ (foreignKeys /\ changes > 0 /\ Referenced(id))
           THEN /\ lastResp' = resp(500)
                /\ UNCHANGED <<persons, sessions, uuidCount>>
           ELSE IF changes = 0
           THEN /\ lastResp' = resp(404)
                /\ UNCHANGED <<persons, sessions, uuidCount>>
           ELSE IF fail = "second" \/ foreignKeys
           THEN /\ lastResp' = resp(500)
                /\ persons' = DeleteWhereId(persons, id)
                /\ uuidCount' = uuidCount + 1
                /\ UNCHANGED sessions
           ELSE /\ lastResp' = resp(200)
                /\ persons' = DeleteWhereId(persons, id)
                /\ sessions' = Append(sessions, log)
                /\ uuidCount' = uuidCount + 1

\* SELECT id FROM persons WHERE name = ? with stmt.get: the first row, or 0 for null
IdByName(name) ==
    LET hits == {k \in 1..Len(persons) : persons[k].name = name}
    IN  IF hits = {} THEN 0
        ELSE persons[CHOOSE k \in hits : \A h \in hits : k <= h].id

\* app.post('/api/logs'): person_id 0 stands for NULL
PostLogs(body, fail) ==
    /\ reqCount' = reqCount + 1
    /\ UNCHANGED <<db, foreignKeys, now, persons, acked, removals>>
    /\ LET resp(code) == [route |-> "POST /api/logs", status |-> code,
                          id |-> 0, before |-> persons]
           personId == IF ~Falsy(body, "personName") /\ body.personName # <<"Unknown">>
                       THEN IdByName(body.personName) ELSE 0
           log == [id |-> uuidCount + 1, person_id |-> personId,
                   action |-> body.action]
       IN  IF ~db
           THEN /\ lastResp' = resp(200)
                /\ UNCHANGED <<sessions, uuidCount>>
           ELSE IF fail # "none"
           THEN /\ lastResp' = resp(500)
                /\ uuidCount' = uuidCount + 1
                /\ UNCHANGED sessions
           ELSE /\ lastResp' = resp(200)
                /\ sessions' = Append(sessions, log)
                /\ uuidCount' = uuidCount + 1

\* the sequences that hold the rows of the table once each
Orderings(table) ==
    { [k \in 1..Len(table) |-> table[p[k]]] :
        p \in { q \in [1..Len(table) -> 1..Len(table)] :
                  \A a, b \in 1..Len(table) : a # b => q[a] # q[b] } }

\* app.get('/api/persons'): SELECT id, name, created_at FROM persons ORDER BY
\* created_at DESC. SQL leaves the order of rows with equal created_at open.
GetPersons ==
    IF ~db THEN { << >> }
    ELSE { [k \in 1..Len(o) |-> [id |-> o[k].id, name |-> o[k].name,
                                  created_at |-> o[k].created_at]] :
             o \in { t \in Orderings(persons) :
                       \A k \in 1..(Len(t) - 1) :
                           t[k].created_at >= t[k + 1].created_at } }

\* -------------------------------------------------------------- EnrollFace
\* App.loadModels resolves: setModelsLoaded(true)
LoadModels ==
    /\ ~modelsLoaded
    /\ modelsLoaded' = TRUE
    /\ UNCHANGED <<D, personName, isCapturing, status, faces, epc, frameIdx,
                   collectedFaces, enrollReq, enrollResp, sent>>
    /\ UNCHANGED <<serverVars, liveVars, uiVars>>

\* the name field's onChange; the field is disabled while capturing
SetPersonName(n) ==
    /\ ~isCapturing
    /\ epc = "idle"
    /\ personName # n
    /\ personName' = n
    /\ UNCHANGED <<D, modelsLoaded, isCapturing, status, faces, epc, frameIdx,
                   collectedFaces, enrollReq, enrollResp, sent>>
    /\ UNCHANGED <<serverVars, liveVars, uiVars>>

\* handleEnroll up to its first await (the button is disabled while capturing
\* and until the models are loaded)
HandleEnroll ==
    /\ epc = "idle"
    /\ ~isCapturing
    /\ modelsLoaded
    /\ IF Trim(personName) = << >>
       THEN /\ status' = "Please enter a name"
            /\ UNCHANGED <<isCapturing, faces, epc, frameIdx, collectedFaces>>
       ELSE IF ~modelsLoaded
       THEN /\ status' = "Face recognition models not loaded yet"
            /\ UNCHANGED <<isCapturing, faces, epc, frameIdx, collectedFaces>>
       ELSE /\ isCapturing' = TRUE
            /\ status' = "Starting enrollment..."
            /\ faces' = 0
            /\ collectedFaces' = << >>
            /\ frameIdx' = 0
            /\ epc' = "capturing"
    /\ UNCHANGED <<D, modelsLoaded, personName, enrollReq, enrollResp, sent>>
    /\ UNCHANGED <<serverVars, liveVars, uiVars>>

Brights(samples) == Cardinality({k \in 1..Len(samples) : samples[k] = "bright"})

\* what captureFrame can return for one frame: null, a descriptor, or a throw
FrameOutcomes(samples) ==
    {"null", "throw", "steady"}
        \cup (IF Brights(samples) < MaxBright THEN {"bright"} ELSE {})

\* one turn of the capture loop: await captureFrame(), push, sleep 200 ms
CaptureFrame(outcome) ==
    /\ epc = "capturing"
    /\ frameIdx < targetFrames
    /\ outcome \in FrameOutcomes(collectedFaces)
    /\ IF outcome = "throw"
       THEN /\ epc' = "rejected"
            /\ status' = "Capturing frame"
            /\ UNCHANGED <<collectedFaces, faces, frameIdx>>
       ELSE /\ status' = "Capturing frame"
            /\ frameIdx' = frameIdx + 1
            /\ epc' = epc
            /\ IF outcome = "null"
               THEN UNCHANGED <<collectedFaces, faces>>
               ELSE /\ collectedFaces' = Append(collectedFaces, outcome)
                    /\ faces' = faces + 1
    /\ UNCHANGED <<D, modelsLoaded, personName, isCapturing, enrollReq,
                   enrollResp, sent>>
    /\ UNCHANGED <<serverVars, liveVars, uiVars>>

\* a slip: the averaged descriptor is posted along with its digest
EnrollBodyWithDescriptor(name, avgDescriptor) ==
    [name |-> name, encodingHash |-> Sha256Hex(avgDescriptor),
     descriptor |-> avgDescriptor]

\* the body of the enroll request: { name: personName.trim(), encodingHash }
EnrollBody(name, avgDescriptor) ==
    [name |-> name, encodingHash |-> Sha256Hex(avgDescriptor)]

\* after the loop: the 70% test, the average, the digest and the post
FinishCapture ==
    /\ epc = "capturing"
    /\ frameIdx = targetFrames
    /\ IF Insufficient(Len(collectedFaces))
       THEN /\ status' = "Insufficient face data captured. Try again."
            /\ isCapturing' = FALSE
            /\ epc' = "done"
            /\ UNCHANGED <<enrollReq, sent>>
       ELSE LET avgDescriptor == Average(collectedFaces)
                body == EnrollBody(Trim(personName), avgDescriptor)
            IN  /\ enrollReq' = <<body>>
                /\ sent' = Append(sent, body)
                /\ epc' = "posting"
                /\ UNCHANGED <<status, isCapturing>>
    /\ UNCHANGED <<D, modelsLoaded, personName, faces, frameIdx, collectedFaces,
                   enrollResp>>
    /\ UNCHANGED <<serverVars, liveVars, uiVars>>

\* the server answers the client's enroll request
ServeEnroll(fail) ==
    /\ enrollReq # << >>
    /\ enrollResp = 0
    /\ PostEnroll(enrollReq[1], fail)
    /\ enrollResp' = lastResp'.status
    /\ UNCHANGED <<D, modelsLoaded, personName, isCapturing, status, faces, epc,
                   frameIdx, collectedFaces, enrollReq, sent>>
    /\ UNCHANGED <<liveVars, uiVars>>

\* the request never gets an answer: axios rejects with a network error
EnrollNetworkError ==
    /\ enrollReq # << >>
    /\ enrollResp = 0
    /\ enrollResp' = 599
    /\ UNCHANGED <<D, modelsLoaded, personName, isCapturing, status, faces, epc,
                   frameIdx, collectedFaces, enrollReq, sent>>
    /\ UNCHANGED <<serverVars, liveVars, uiVars>>

\* handleEnroll after await axios.post: the try body or the catch, then the tail
EnrollSettled ==
    /\ epc = "posting"
    /\ enrollResp # 0
    /\ IF enrollResp = 200
       THEN /\ status' = "Successfully enrolled"
            /\ personName' = << >>
            /\ faces' = 0
       ELSE /\ status' = "Enrollment failed. Please try again."
            /\ UNCHANGED <<personName, faces>>
    /\ isCapturing' = FALSE
    /\ epc' = "done"
    /\ enrollReq' = << >>
    /\ UNCHANGED <<D, modelsLoaded, frameIdx, collectedFaces, enrollResp, sent>>
    /\ UNCHANGED <<serverVars, liveVars, uiVars>>

\* ---------------------------------------------------------- LiveRecognition
Unknown == <<"Unknown">>

\* Math.random() for the simulated distance, in tenths
RandomValues == {0, 3, 4}

\* Math.max(0, 1 - distance), in tenths
Confidence(distance) == IF 10 - distance > 0 THEN 10 - distance ELSE 0

\* a slip: >= 0.6 in place of > 0.6
RECURSIVE ScanPersonsAtFloor(_, _, _, _)
ScanPersonsAtFloor(ps, draws, k, bestMatch) ==
    IF k > Len(ps) THEN bestMatch
    ELSE LET confidence == Confidence(draws[k])
         IN  ScanPersonsAtFloor(ps, draws, k + 1,
                 IF confidence > bestMatch.confidence /\ confidence >= ConfidenceFloor
                 THEN [name |-> ps[k].name, confidence |-> confidence]
                 ELSE bestMatch)

\* for (const person of persons) { ... }: the loop from person k on
RECURSIVE ScanPersons(_, _, _, _)
ScanPersons(ps, draws, k, bestMatch) ==
    IF k > Len(ps) THEN bestMatch
    ELSE LET confidence == Confidence(draws[k])
         IN  ScanPersons(ps, draws, k + 1,
                 IF confidence > bestMatch.confidence /\ confidence > ConfidenceFloor
                 THEN [name |-> ps[k].name, confidence |-> confidence]
                 ELSE bestMatch)

\* a slip: the scan seeded with the first person, persons[0]
BestMatchSeeded(ps, draws) ==
    IF ps = << >> THEN [name |-> <<"undefined">>, confidence |-> 0]
    ELSE ScanPersons(ps, draws, 1, [name |-> ps[1].name, confidence |-> 0])

\* let bestMatch = { name: 'Unknown', confidence: 0 } and the loop over persons
BestMatch(ps, draws) ==
    ScanPersons(ps, draws, 1, [name |-> Unknown, confidence |-> 0])

\* what detectAllFaces can give for a frame: a throw, or the boxes of the faces
Detections == {"throw", << >>, <<"box1">>}

\* the detectors a frame is handed to, in order: detectAllFaces(video, new
\* faceapi.TinyFaceDetectorOptions()) and nothing else (ssdMobilenetv1 is
\* loaded by App.loadModels but never called)
DetectorCalls == <<"tinyFaceDetector">>

\* a slip: the filter keeps the recognized faces
RecognizedOnly(currentFaces) ==
    {f \in 1..Len(currentFaces) : currentFaces[f].name # Unknown}

\* currentFaces.filter(face => face.name === 'Unknown')
UnknownFaces(currentFaces) ==
    {f \in 1..Len(currentFaces) : currentFaces[f].name = Unknown}

\* the body of the log request: { action: `detected_unknown_faces`,
\* personName: null } (null is written << >>)
UnknownFacesLog == [action |-> "detected_unknown_faces", personName |-> << >>]

\* loadPersons: setPersons(response.data.persons); a failed request is caught
\* and leaves persons as it was
LoadPersons ==
    /\ \E list \in GetPersons : lrPersons' = list
    /\ lrPersons' # lrPersons
    /\ UNCHANGED <<recognizedFaces, logPosts, frameCount, lastFrame, logResp,
                   logFailed, isActive, lrStatus, lrpc, lrClosure>>
    /\ UNCHANGED <<enrollVars, serverVars, uiVars>>

\* detectAndRecognize as created by a render with the closure c = [ready,
\* modelsLoaded, isActive, persons], up to its await of the log request.
\* Where the call then stands (lrpc) is for the caller to say.
\* detection is what detectAllFaces gives, draws[f][k] the Math.random() for
\* face f and person k.
DetectAndRecognize(c, detection, draws) ==
    IF ~c.ready \/ ~c.modelsLoaded \/ ~c.isActive
    THEN UNCHANGED vars
    ELSE /\ frameCount' = frameCount + 1
         /\ UNCHANGED <<lrPersons, logResp, logFailed>>
         /\ UNCHANGED <<D, modelsLoaded, personName, isCapturing, status, faces,
                        epc, frameIdx, collectedFaces, enrollReq, enrollResp>>
         /\ UNCHANGED <<serverVars, uiVars>>
         /\ IF detection = "throw"
            THEN /\ lastFrame' = <<[persons |-> c.persons, detection |-> << >>,
                                    draws |-> << >>, threw |-> TRUE,
                                    faces |-> << >>,
                                    detectors |-> DetectorCalls,
                                    posted |-> FALSE]>>
                 /\ UNCHANGED <<recognizedFaces, logPosts, sent>>
            ELSE LET currentFaces ==
                         [f \in 1..Len(detection) |->
                             LET bestMatch == BestMatch(c.persons, draws[f])
                             IN  [name |-> bestMatch.name,
                                  confidence |-> bestMatch.confidence,
                                  box |-> detection[f]]]
                     unknownFaces == UnknownFaces(currentFaces)
                 IN  /\ recognizedFaces' = currentFaces
                     /\ lastFrame' = <<[persons |-> c.persons, detection |-> detection,
                                        draws |-> draws, threw |-> FALSE,
                                        faces |-> currentFaces,
                                        detectors |-> DetectorCalls,
                                        posted |-> unknownFaces # {}]>>
                     /\ logPosts' = IF unknownFaces # {} THEN logPosts + 1 ELSE logPosts
                     /\ sent' = IF unknownFaces # {}
                                THEN Append(sent, UnknownFacesLog) ELSE sent

\* a frame: the callback is run with a closure over the current persons
ProcessFrame ==
    /\ frameCount < MaxFrames
    /\ \E ready \in BOOLEAN, active \in BOOLEAN, detection \in Detections :
         \E draws \in [1..(IF detection = "throw" THEN 0 ELSE Len(detection)) ->
                          [1..Len(lrPersons) -> RandomValues]] :
            /\ DetectAndRecognize([ready |-> ready, modelsLoaded |-> modelsLoaded,
                                   isActive |-> active, persons |-> lrPersons],
                                  detection, draws)
            /\ frameCount' # frameCount
            /\ UNCHANGED <<isActive, lrStatus, lrpc, lrClosure>>

\* the server answers the log request the callback awaits
ServeLog(fail) ==
    /\ logPosts > 0
    /\ logResp = 0
    /\ PostLogs(UnknownFacesLog, fail)
    /\ logResp' = lastResp'.status
    /\ UNCHANGED <<lrPersons, recognizedFaces, logPosts, frameCount, lastFrame,
                   logFailed, isActive, lrStatus, lrpc, lrClosure>>
    /\ UNCHANGED <<enrollVars, uiVars>>

\* the log request gets no answer: axios rejects with a network error
LogNetworkError ==
    /\ logPosts > 0
    /\ logResp = 0
    /\ logResp' = 599
    /\ UNCHANGED <<lrPersons, recognizedFaces, logPosts, frameCount, lastFrame,
                   logFailed, isActive, lrStatus, lrpc, lrClosure>>
    /\ UNCHANGED <<enrollVars, serverVars, uiVars>>

\* detectAndRecognize after await axios.post('/api/logs'): a rejection is
\* caught and written to the console; then, isActive being true in the
\* closure, requestAnimationFrame(detectAndRecognize)
LogSettled ==
    /\ logResp # 0
    /\ logPosts' = logPosts - 1
    /\ logResp' = 0
    /\ logFailed' = IF logResp # 200 THEN frameCount ELSE logFailed
    /\ lrpc' = IF lrpc = "logging" THEN "scheduled" ELSE lrpc
    /\ UNCHANGED <<lrPersons, recognizedFaces, frameCount, lastFrame, isActive,
                   lrStatus, lrClosure>>
    /\ UNCHANGED <<enrollVars, serverVars, uiVars>>

\* a call of detectAndRecognize with the closure c, to its first await: the
\* guards of lines 143 and 146 return, otherwise detectAllFaces is awaited
CallDetectAndRecognize(c) ==
    IF ~c.ready \/ ~c.modelsLoaded \/ ~c.isActive
    THEN UNCHANGED <<lrpc, lrClosure>>
    ELSE /\ lrpc' = "detecting"
         /\ lrClosure' = <<c>>

\* startRecognition (the button is disabled={!modelsLoaded || isActive}):
\* setIsActive(true), setStatus, detectAndRecognize(). The callback called is
\* the one of the render the handler belongs to, whose isActive is the state
\* as it is when the button is pressed.
StartRecognition ==
    /\ modelsLoaded
    /\ ~isActive
    /\ isActive' = TRUE
    /\ lrStatus' = "Recognition active - detecting faces..."
    /\ \E ready \in BOOLEAN :
          CallDetectAndRecognize([ready |-> ready, modelsLoaded |-> modelsLoaded,
                                  isActive |-> isActive, persons |-> lrPersons])
    /\ UNCHANGED <<lrPersons, recognizedFaces, logPosts, frameCount, lastFrame,
                   logResp, logFailed>>
    /\ UNCHANGED <<enrollVars, serverVars, uiVars>>

\* stopRecognition (the button is disabled={!isActive}): setIsActive(false),
\* cancelAnimationFrame of the request in animationRef, the canvas cleared,
\* setRecognizedFaces([]), setStatus. A call that is awaiting is not touched.
StopRecognition ==
    /\ isActive
    /\ isActive' = FALSE
    /\ IF lrpc = "scheduled"
       THEN lrpc' = "idle" /\ lrClosure' = << >>
       ELSE UNCHANGED <<lrpc, lrClosure>>
    /\ recognizedFaces' = << >>
    /\ lrStatus' = "Recognition stopped"
    /\ UNCHANGED <<lrPersons, logPosts, frameCount, lastFrame, logResp, logFailed>>
    /\ UNCHANGED <<enrollVars, serverVars, uiVars>>

\* the callback of the current render is called: what it sees of isActive and
\* persons is the state of that render
RunCallback ==
    /\ lrpc = "idle"
    /\ frameCount < MaxFrames
    /\ \E ready \in BOOLEAN :
          CallDetectAndRecognize([ready |-> ready, modelsLoaded |-> modelsLoaded,
                                  isActive |-> isActive, persons |-> lrPersons])
    /\ lrpc' # lrpc
    /\ UNCHANGED <<lrPersons, recognizedFaces, logPosts, frameCount, lastFrame,
                   logResp, logFailed, isActive, lrStatus>>
    /\ UNCHANGED <<enrollVars, serverVars, uiVars>>

\* detectAllFaces settles and the call goes on with its own closure: the faces
\* are published; with an Unknown face the log request is awaited, otherwise
\* (and after a throw) line 224 finds isActive true in the closure, as it was
\* at line 143, and requests the next frame
CompleteFrame(detection, draws) ==
    /\ lrpc = "detecting"
    /\ DetectAndRecognize(lrClosure[1], detection, draws)
    /\ lrpc' = IF lastFrame'[1].posted THEN "logging" ELSE "scheduled"
    /\ UNCHANGED <<isActive, lrStatus, lrClosure>>

\* the browser runs the callback given to requestAnimationFrame: the same
\* function, with the same closure; the webcam is looked at anew
AnimationFrame ==
    /\ lrpc = "scheduled"
    /\ frameCount < MaxFrames
    /\ \E ready \in BOOLEAN :
          IF ready
          THEN lrpc' = "detecting" /\ lrClosure' = lrClosure
          ELSE lrpc' = "idle" /\ lrClosure' = << >>
    /\ UNCHANGED <<lrPersons, recognizedFaces, logPosts, frameCount, lastFrame,
                   logResp, logFailed, isActive, lrStatus>>
    /\ UNCHANGED <<enrollVars, serverVars, uiVars>>

\* ------------------------------------------------------------ BatchGallery
\* the name of the k-th dropped file
FileName(k) == <<"file", k>>

\* onDrop: setFiles(prev => [...prev, ...acceptedFiles]); the dropzone stays
\* active while processImages runs
OnDrop ==
    /\ Len(files) < MaxFiles
    /\ files' = Append(files, FileName(Len(files) + 1))
    /\ UNCHANGED <<processing, results, bpc, batchIdx, jobLen, processedResults>>
    /\ UNCHANGED <<enrollVars, serverVars, liveVars, appVars>>

\* processImages up to its first await (the button is disabled while
\* processing and until the models are loaded); with no files it returns
ProcessImages ==
    /\ ~processing
    /\ modelsLoaded
    /\ bpc = "idle"
    /\ files # << >>
    /\ processing' = TRUE
    /\ results' = << >>
    /\ processedResults' = << >>
    /\ batchIdx' = 0
    /\ jobLen' = Len(files)
    /\ bpc' = "loop"
    /\ UNCHANGED files
    /\ UNCHANGED <<enrollVars, serverVars, liveVars, appVars>>

\* match: Math.random() > 0.7 ? 'John Doe' : 'Unknown'
Matches == {"John Doe", "Unknown"}

\* what can happen to one image: it fails to load (img.onerror is not set),
\* detectAllFaces throws, or it returns the boxes of the faces
ImageOutcomes == {"loadError", "throw", "noFace", "oneFace"}

\* a slip: the catch pushes a result of the same shape as an image without faces
BatchResultUnmarked(filename, outcome, match) ==
    IF outcome = "oneFace"
    THEN [filename |-> filename, faces |-> <<[id |-> 0, match |-> match]>>,
          totalFaces |-> 1, detected |-> outcome]
    ELSE [filename |-> filename, faces |-> << >>, totalFaces |-> 0,
          detected |-> outcome]

\* the element pushed on processedResults for one loaded image; the field
\* error exists only in the element pushed by the catch. detected is history:
\* what detectAllFaces did.
BatchResult(filename, outcome, match) ==
    IF outcome = "throw"
    THEN [filename |-> filename, faces |-> << >>, totalFaces |-> 0,
          error |-> "Processing failed", detected |-> outcome]
    ELSE IF outcome = "oneFace"
    THEN [filename |-> filename, faces |-> <<[id |-> 0, match |-> match]>>,
          totalFaces |-> 1, detected |-> outcome]
    ELSE [filename |-> filename, faces |-> << >>, totalFaces |-> 0,
          detected |-> outcome]

\* one turn of the loop of processImages: await new Promise(resolve => {
\* img.onload = async () => { try ... catch ...; resolve() } }). An image that
\* fails to load never calls onload, and the promise stays pending.
ProcessImage(outcome, match) ==
    /\ bpc = "loop"
    /\ batchIdx < jobLen
    /\ outcome = "oneFace" \/ match = "Unknown"
    /\ IF outcome = "loadError"
       THEN /\ bpc' = "pending"
            /\ UNCHANGED <<batchIdx, processedResults>>
       ELSE /\ processedResults' =
                   Append(processedResults,
                          BatchResult(files[batchIdx + 1], outcome, match))
            /\ batchIdx' = batchIdx + 1
            /\ bpc' = bpc
    /\ UNCHANGED <<files, processing, results, jobLen>>
    /\ UNCHANGED <<enrollVars, serverVars, liveVars, appVars>>

\* after the loop: setResults(processedResults); setProcessing(false)
FinishBatch ==
    /\ bpc = "loop"
    /\ batchIdx = jobLen
    /\ results' = processedResults
    /\ processing' = FALSE
    /\ bpc' = "idle"
    /\ UNCHANGED <<files, batchIdx, jobLen, processedResults>>
    /\ UNCHANGED <<enrollVars, serverVars, liveVars, appVars>>

\* clearFiles (the button is disabled while processing)
ClearFiles ==
    /\ ~processing
    /\ files # << >> \/ results # << >>
    /\ files' = << >>
    /\ results' = << >>
    /\ UNCHANGED <<processing, bpc, batchIdx, jobLen, processedResults>>
    /\ UNCHANGED <<enrollVars, serverVars, liveVars, appVars>>

\* --------------------------------------------------------------- App shell
\* what App renders: the consent dialog alone, or the component of the tab
Rendered ==
    IF ~consentGiven THEN {"ConsentModal"}
    ELSE IF tabValue = 0 THEN {"EnrollFace"}
    ELSE IF tabValue = 1 THEN {"LiveRecognition"}
    ELSE {"BatchGallery"}

\* the state a component has when it is mounted: its useState initial values
FreshComponents ==
    /\ personName' = << >>
    /\ isCapturing' = FALSE
    /\ status' = ""
    /\ faces' = 0
    /\ epc' = "idle"
    /\ frameIdx' = 0
    /\ collectedFaces' = << >>
    /\ enrollReq' = << >>
    /\ enrollResp' = 0
    /\ lrPersons' = << >>
    /\ recognizedFaces' = << >>
    /\ logPosts' = 0
    /\ frameCount' = 0
    /\ lastFrame' = << >>
    /\ logResp' = 0
    /\ logFailed' = 0
    /\ isActive' = FALSE
    /\ lrStatus' = "Click Start Recognition to begin"
    /\ lrpc' = "idle"
    /\ lrClosure' = << >>
    /\ files' = << >>
    /\ processing' = FALSE
    /\ results' = << >>
    /\ bpc' = "idle"
    /\ batchIdx' = 0
    /\ jobLen' = 0
    /\ processedResults' = << >>

\* a slip: the effect only loads the models
MountEffectForgetful ==
    /\ ~mounted
    /\ mounted' = TRUE
    /\ UNCHANGED <<localStorage, consentGiven, accepted, tabValue>>
    /\ UNCHANGED <<enrollVars, serverVars, liveVars, batchVars>>

\* App's useEffect(..., []): the stored consent is read, then loadModels()
MountEffect ==
    /\ ~mounted
    /\ mounted' = TRUE
    /\ consentGiven' = IF localStorage = "accepted" THEN TRUE ELSE consentGiven
    /\ UNCHANGED <<localStorage, accepted, tabValue>>
    /\ UNCHANGED <<enrollVars, serverVars, liveVars, batchVars>>

\* the checkbox of the consent dialog: setAccepted(e.target.checked). (React
\* runs the mount effect before it handles the first event.)
SetAccepted ==
    /\ mounted
    /\ "ConsentModal" \in Rendered
    /\ accepted' = ~accepted
    /\ UNCHANGED <<localStorage, mounted, consentGiven, tabValue>>
    /\ UNCHANGED <<enrollVars, serverVars, liveVars, batchVars>>

\* a slip: Continue neither disabled nor checked against the checkbox
HandleAcceptUnchecked ==
    /\ mounted
    /\ "ConsentModal" \in Rendered
    /\ localStorage' = "accepted"
    /\ consentGiven' = TRUE
    /\ accepted' = FALSE
    /\ UNCHANGED <<mounted, tabValue>>
    /\ UNCHANGED <<enrollVars, serverVars, liveVars, batchVars>>

\* Continue (disabled={!accepted}): ConsentModal.handleAccept calls onAccept
\* if accepted, and App.handleConsentAccept stores the consent; the dialog is
\* then unmounted and its state is gone
HandleAccept ==
    /\ mounted
    /\ "ConsentModal" \in Rendered
    /\ accepted
    /\ localStorage' = "accepted"
    /\ consentGiven' = TRUE
    /\ accepted' = FALSE
    /\ UNCHANGED <<mounted, tabValue>>
    /\ UNCHANGED <<enrollVars, serverVars, liveVars, batchVars>>

\* handleTabChange: the component of the old tab is unmounted, the one of the
\* new tab is mounted
HandleTabChange(newValue) ==
    /\ mounted
    /\ "ConsentModal" \notin Rendered
    /\ newValue # tabValue
    /\ tabValue' = newValue
    /\ FreshComponents
    /\ UNCHANGED <<D, modelsLoaded, sent>>
    /\ UNCHANGED <<localStorage, mounted, consentGiven, accepted>>
    /\ UNCHANGED serverVars

\* the page is loaded again: every useState starts over, localStorage stays
Reload ==
    /\ mounted' = FALSE
    /\ consentGiven' = FALSE
    /\ accepted' = FALSE
    /\ tabValue' = 0
    /\ modelsLoaded' = FALSE
    /\ FreshComponents
    /\ UNCHANGED <<D, sent, localStorage>>
    /\ UNCHANGED serverVars

\* ------------------------------------------------------- the database file
\* names nobody enrolled
ForgedNames == { <<"x">> }

\* faceidhub.db is an ordinary SQLite file: whoever can write it can change a
\* stored row
TamperRow(k, name) ==
    /\ db
    /\ k \in 1..Len(persons)
    /\ persons[k].name \notin ForgedNames
    /\ persons' = [persons EXCEPT ![k].name = name]
    /\ UNCHANGED <<db, foreignKeys, sessions, uuidCount, now, reqCount, lastResp,
                   acked, removals>>
    /\ UNCHANGED <<enrollVars, liveVars, uiVars>>

\* ----------------------------------------------------- requests to the server
Names == { <<"a">>, <<"b">> }

\* JSON bodies a client can post to /api/enroll
EnrollBodies ==
    { [name |-> n, encodingHash |-> <<"h1">>] : n \in Names \cup {<< >>} }
        \cup { [name |-> <<"a">>], [encodingHash |-> <<"h1">>],
               [name |-> <<"a">>, encodingHash |-> << >>] }

EnrollRequest(body, fail) ==
    /\ reqCount < MaxRequests
    /\ PostEnroll(body, fail)
    /\ UNCHANGED <<enrollVars, liveVars, uiVars>>

\* JSON bodies a client can post to /api/logs
LogBodies ==
    { [action |-> "detected_unknown_faces"],
      [action |-> "recognized", personName |-> <<"a">>],
      [action |-> "recognized", personName |-> Unknown] }

LogRequest(body, fail) ==
    /\ reqCount < MaxRequests
    /\ PostLogs(body, fail)
    /\ UNCHANGED <<enrollVars, liveVars, uiVars>>

\* ids a client can name: those handed out so far, and one never handed out
DeleteRequest(id, fail) ==
    /\ reqCount < MaxRequests
    /\ id \in 0..uuidCount
    /\ DeletePerson(id, fail)
    /\ UNCHANGED <<enrollVars, liveVars, uiVars>>

\* ----------------------------------------------------------- initial states
InitServer ==
    /\ db \in BOOLEAN
    /\ foreignKeys \in BOOLEAN
    /\ persons = << >>
    /\ sessions = << >>
    /\ uuidCount = 0
    /\ now = 0
    /\ reqCount = 0
    /\ lastResp = NoResp
    /\ acked = << >>
    /\ removals = FALSE

InitEnrollFace ==
    /\ D \in Dims
    /\ modelsLoaded = FALSE
    /\ personName = << >>
    /\ isCapturing = FALSE
    /\ status = ""
    /\ faces = 0
    /\ epc = "idle"
    /\ frameIdx = 0
    /\ collectedFaces = << >>
    /\ enrollReq = << >>
    /\ enrollResp = 0
    /\ sent = << >>

InitLive ==
    /\ lrPersons = << >>
    /\ recognizedFaces = << >>
    /\ logPosts = 0
    /\ frameCount = 0
    /\ lastFrame = << >>
    /\ logResp = 0
    /\ logFailed = 0
    /\ isActive = FALSE
    /\ lrStatus = "Click Start Recognition to begin"
    /\ lrpc = "idle"
    /\ lrClosure = << >>

InitBatch ==
    /\ files = << >>
    /\ processing = FALSE
    /\ results = << >>
    /\ bpc = "idle"
    /\ batchIdx = 0
    /\ jobLen = 0
    /\ processedResults = << >>

\* the page as first loaded in a browser that holds no consent
InitFresh ==
    /\ localStorage = "null"
    /\ mounted = FALSE
    /\ consentGiven = FALSE
    /\ accepted = FALSE
    /\ tabValue = 0

\* the App once consent has been accepted and stored: the tabs are rendered
InitConsented ==
    /\ localStorage = "accepted"
    /\ mounted = TRUE
    /\ consentGiven = TRUE
    /\ accepted = FALSE

InitComponents == InitEnrollFace /\ InitServer /\ InitLive /\ InitBatch

Init == InitComponents /\ InitConsented /\ tabValue = 0

\* the enroll route never deletes, so the foreign-key setting cannot matter to
\* a session: it is fixed to the library's default
InitEnroll == Init /\ foreignKeys = TRUE

\* -------------------------------------------------------------- SpecEnroll
NextEnroll ==
    \/ LoadModels
    \/ \E n \in TypedNames : SetPersonName(n)
    \/ HandleEnroll
    \/ \E o \in {"null", "throw", "steady", "bright"} : CaptureFrame(o)
    \/ FinishCapture
    \/ \E f \in IoFailures : ServeEnroll(f)
    \/ EnrollNetworkError
    \/ EnrollSettled

SpecEnroll == InitEnroll /\ [][NextEnroll]_vars

\* --------------------------------------------------------------- SpecMatch
\* The gallery is filled by well-formed enroll requests and loaded before the
\* first frame; processing frames does not change it.
NextMatch ==
    \/ LoadModels
    \/ frameCount = 0 /\ Tick
    \/ /\ frameCount = 0
       /\ Len(persons) < MaxPersons
       /\ \E n \in Names :
             EnrollRequest([name |-> n, encodingHash |-> <<"h1">>], "none")
    \/ frameCount = 0 /\ LoadPersons
    \/ ProcessFrame

\* nothing is deleted here, so the foreign-key setting cannot matter
InitMatch == InitComponents /\ InitConsented /\ tabValue = 1 /\ foreignKeys = TRUE

SpecMatch == InitMatch /\ [][NextMatch]_vars

\* -------------------------------------------------------------------- Spec
Next ==
    \/ Tick
    \/ \E body \in EnrollBodies, f \in IoFailures : EnrollRequest(body, f)
    \/ \E id \in 0..(2 * MaxRequests), f \in IoFailures : DeleteRequest(id, f)
    \/ \E body \in LogBodies, f \in {"none", "first"} : LogRequest(body, f)

Spec == Init /\ [][Next]_vars

\* --------------------------------------------------------------- SpecStore
\* enrollments, edits of the database file, and loads of the gallery
NextStore ==
    \/ Tick
    \/ \E n \in Names :
          EnrollRequest([name |-> n, encodingHash |-> <<"h1">>], "none")
    \/ \E k \in 1..MaxPersons, n \in ForgedNames : TamperRow(k, n)
    \/ LoadPersons

SpecStore == InitMatch /\ [][NextStore]_vars

\* -------------------------------------------------------------- SpecNotify
\* One chain of frames: detectAndRecognize is called again, through
\* requestAnimationFrame, only when the call before it has finished, so no
\* frame is processed while a log request is awaited.
NextNotify ==
    \/ LoadModels
    \/ /\ frameCount = 0
       /\ persons = << >>
       /\ EnrollRequest([name |-> <<"a">>, encodingHash |-> <<"h1">>], "none")
    \/ frameCount = 0 /\ LoadPersons
    \/ logPosts = 0 /\ ProcessFrame
    \/ \E f \in {"none", "first"} : ServeLog(f)
    \/ LogNetworkError
    \/ LogSettled

SpecNotify == InitMatch /\ [][NextNotify]_vars

\* --------------------------------------------------------------- SpecBatch
InitGallery == InitComponents /\ InitConsented /\ tabValue = 2 /\ foreignKeys = TRUE

NextBatch ==
    \/ LoadModels
    \/ OnDrop
    \/ ProcessImages
    \/ \E o \in ImageOutcomes, m \in Matches : ProcessImage(o, m)
    \/ FinishBatch
    \/ ClearFiles

SpecBatch == InitGallery /\ [][NextBatch]_vars

\* ----------------------------------------------------------------- SpecApp
\* The shell with what each rendered component lets the user start. The
\* database plays no part: it is taken as opened.
InitApp == InitComponents /\ InitFresh /\ db = TRUE /\ foreignKeys = TRUE

NextApp ==
    \/ MountEffect
    \/ mounted /\ LoadModels
    \/ SetAccepted
    \/ HandleAccept
    \/ \E v \in 0..2 : HandleTabChange(v)
    \/ Reload
    \/ "EnrollFace" \in Rendered /\ \E n \in TypedNames : SetPersonName(n)
    \/ "EnrollFace" \in Rendered /\ HandleEnroll
    \/ /\ "LiveRecognition" \in Rendered
       /\ Len(sent) < MaxRequests
       /\ ProcessFrame
    \/ "BatchGallery" \in Rendered /\ OnDrop
    \/ "BatchGallery" \in Rendered /\ ProcessImages
    \/ /\ "BatchGallery" \in Rendered
       /\ \E o \in ImageOutcomes, m \in Matches : ProcessImage(o, m)
    \/ "BatchGallery" \in Rendered /\ FinishBatch
    \/ "BatchGallery" \in Rendered /\ ClearFiles

SpecApp == InitApp /\ [][NextApp]_vars

\* React runs a mounted component's effect: the mount effect is not postponed
\* for ever
SpecAppFair == InitApp /\ [][NextApp]_vars /\ WF_vars(MountEffect)

\* -------------------------------------------------------------- SpecReject
\* Requests posted to /api/enroll, well-formed or not, and after them one
\* session of the EnrollFace tab with whatever is typed as the name (a face
\* in every frame, no statement failing).
NextReject ==
    \/ LoadModels
    \/ /\ epc = "idle"
       /\ \E body \in EnrollBodies : EnrollRequest(body, "none")
    \/ \E n \in TypedNames : SetPersonName(n)
    \/ HandleEnroll
    \/ CaptureFrame("steady")
    \/ FinishCapture
    \/ ServeEnroll("none")
    \/ EnrollSettled

SpecReject == InitEnroll /\ [][NextReject]_vars

\* -------------------------------------------------------------- SpecClient
\* The client over one visit: an enrollment session on the first tab, then
\* the live tab with its load of the gallery and its frames.
NextClient ==
    \/ LoadModels
    \/ "EnrollFace" \in Rendered /\ \E n \in TypedNames : SetPersonName(n)
    \/ "EnrollFace" \in Rendered /\ HandleEnroll
    \/ \E o \in {"null", "throw", "steady", "bright"} : CaptureFrame(o)
    \/ FinishCapture
    \/ ServeEnroll("none")
    \/ EnrollNetworkError
    \/ EnrollSettled
    \/ epc \in {"idle", "done"} /\ tabValue = 0 /\ HandleTabChange(1)
    \/ "LiveRecognition" \in Rendered /\ LoadPersons
    \/ "LiveRecognition" \in Rendered /\ logPosts = 0 /\ ProcessFrame
    \/ ServeLog("none")
    \/ LogNetworkError
    \/ LogSettled

SpecClient == InitEnroll /\ [][NextClient]_vars

\* ---------------------------------------------------------------- SpecLive
\* The LiveRecognition tab as the user has it: the gallery is loaded, and
\* calls of detectAndRecognize are made by startRecognition alone.
NextLive ==
    \/ LoadModels
    \/ Tick
    \/ /\ Len(persons) < MaxPersons
       /\ \E n \in Names :
             EnrollRequest([name |-> n, encodingHash |-> <<"h1">>], "none")
    \/ LoadPersons
    \/ StartRecognition
    \/ StopRecognition

SpecLive == InitMatch /\ [][NextLive]_vars

\* the steps of a call of detectAndRecognize that is under way
FrameStep ==
    \/ \E detection \in Detections :
         \E draws \in [1..(IF detection = "throw" THEN 0 ELSE Len(detection)) ->
                          [1..(IF lrClosure = << >> THEN 0
                               ELSE Len(lrClosure[1].persons)) -> RandomValues]] :
            CompleteFrame(detection, draws)
    \/ \E f \in {"none", "first"} : ServeLog(f)
    \/ LogSettled
    \/ AnimationFrame

\* The browser settles what is awaited and runs the animation frames that
\* were requested; what the user presses, and when, is up to the user.
SpecLiveFair == InitMatch /\ [][NextLive]_vars /\ WF_vars(FrameStep)

\* -------------------------------------------------------------- SpecFrames
\* detectAndRecognize as a function of its closure, step by step: the
\* callback of the current render is called and its chain of frames runs,
\* while the user presses Start and Stop.
NextFrames ==
    \/ LoadModels
    \/ /\ frameCount = 0
       /\ persons = << >>
       /\ EnrollRequest([name |-> <<"a">>, encodingHash |-> <<"h1">>], "none")
    \/ frameCount = 0 /\ LoadPersons
    \/ StartRecognition
    \/ StopRecognition
    \/ RunCallback
    \/ FrameStep
    \/ LogNetworkError

SpecFrames == InitMatch /\ [][NextFrames]_vars

\* ---------------------------------------------------- claims on enrollment
Abs(x) == IF x < 0 THEN -x ELSE x

\* handleEnroll has just posted its request
JustPosted == epc = "posting" /\ enrollResp = 0

\* the canonical encoding the client has posted (the bytes under the digest)
Posted == sent[1].encodingHash[2]

\* the exact (unrounded) sum of coordinate j over the samples numbered in idx
RECURSIVE SumOver(_, _, _)
SumOver(samples, j, idx) ==
    IF idx = {} THEN 0
    ELSE LET k == CHOOSE i \in idx : TRUE
         IN  Coord(samples[k], j) + SumOver(samples, j, idx \ {k})

ExactSum(samples, j) == SumOver(samples, j, DOMAIN samples)

\* the Float32 v is the quotient total / n up to the rounding of n Float32
\* operations: |n * v - total| <= n * 2^-23 * total. A Float32 with exponent
\* -sh is below 2^(24 - sh), so for n <= 16 a total of more than 2^(30 - sh)
\* has a quotient at least four times v: the first conjunct is implied by the
\* second and keeps its products within 32-bit integers.
WithinRounding(v, total, n) ==
    /\ total <= Pow2(30) \div Pow2(v.sh)
    /\ Abs(n * v.num - total * Pow2(v.sh))
           <= n * ((total * Pow2(v.sh)) \div Pow2(23))

\* C1: an enrollment with fewer than 70% of the 15 requested frames usable is
\* rejected as insufficient, sends no enroll request and commits nothing; one
\* with at least 70% usable frames is aggregated and posted.
C1_InsufficientRejected ==
    LET usable == Len(collectedFaces)
        below  == 100 * usable < 70 * targetFrames
        ended  == frameIdx = targetFrames /\ epc \in {"posting", "done"}
    IN  /\ sent # << >> => ~below
        /\ (ended /\ below) =>
               /\ sent = << >>
               /\ persons = << >>
               /\ reqCount = 0
               /\ status = "Insufficient face data captured. Try again."
               /\ ~isCapturing
        /\ (ended /\ ~below) =>
               /\ Len(sent) = 1
               /\ status # "Insufficient face data captured. Try again."

\* ten usable frames of fifteen: just under 70%, rejected
C1_Witness ==
    /\ epc = "done"
    /\ frameIdx = targetFrames
    /\ Len(collectedFaces) = 10
    /\ status = "Insufficient face data captured. Try again."

\* C2: for every accepted enrollment each coordinate of the canonical encoding
\* is the sum of that coordinate over the collected descriptors divided by
\* their number, in Float32 arithmetic (equal to the exact quotient up to
\* rounding); frames without a detection contribute nothing.
C2_MeanOfUsable ==
    JustPosted =>
        /\ Posted # << >>
        /\ \A j \in DOMAIN Posted :
              WithinRounding(Posted[j], ExactSum(collectedFaces, j - 1),
                             Len(collectedFaces))

\* eleven usable frames of both faces among fifteen captured
C2_Witness ==
    /\ epc = "posting"
    /\ frameIdx = targetFrames
    /\ Len(collectedFaces) = 11
    /\ \E k \in 1..11 : collectedFaces[k] = "bright"
    /\ \E k \in 1..11 : collectedFaces[k] = "steady"

\* C3: the canonical encoding has the dimension D of the samples it was
\* aggregated from, for D = 128 and D = 512.
C3_DimensionPreserved ==
    sent # << >> => Len(Posted) = D

\* the samples with the neighbours k and k + 1 exchanged
SwapAdjacent(samples, k) ==
    [i \in 1..Len(samples) |->
        IF i = k THEN samples[k + 1] ELSE IF i = k + 1 THEN samples[k] ELSE samples[i]]

Reverse(samples) ==
    [i \in 1..Len(samples) |-> samples[Len(samples) + 1 - i]]

\* reorderings of the samples: the reversal and every exchange of two unlike
\* neighbours (the exchanges generate all permutations)
Reorderings(samples) ==
    {Reverse(samples)} \cup
    { SwapAdjacent(samples, k) :
        k \in {i \in 1..(Len(samples) - 1) : samples[i] # samples[i + 1]} }

\* C4 as claimed: any reordering of the collected samples gives the identical
\* canonical encoding, hence the identical encoding hash.
C4_OrderInvariant ==
    JustPosted =>
        \A r \in Reorderings(collectedFaces) :
            Sha256Hex(Average(r)) = sent[1].encodingHash

\* C4 as amended: any reordering of the collected samples gives a canonical
\* encoding that agrees with the same exact mean, coordinate by coordinate,
\* up to Float32 rounding.
C4_OrderInvariantUpToRounding ==
    JustPosted =>
        \A r \in Reorderings(collectedFaces) :
            LET avg == Average(r)
            IN  /\ Len(avg) = Len(Posted)
                /\ \A j \in DOMAIN avg :
                      WithinRounding(avg[j], ExactSum(collectedFaces, j - 1),
                                     Len(collectedFaces))

\* a posted enrollment one of whose reorderings has another encoding hash
C4_Witness ==
    /\ JustPosted
    /\ \E r \in Reorderings(collectedFaces) :
          Sha256Hex(Average(r)) # sent[1].encodingHash

\* ------------------------------------------------------ claims on matching
\* a frame has been processed and its detection did not throw
Matched == lastFrame # << >> /\ ~lastFrame[1].threw

\* the confidence 1 - distance of candidate k for face f of the last frame
CandidateConfidence(f, k) == 10 - lastFrame[1].draws[f][k]

Candidates == DOMAIN lastFrame[1].persons

\* the candidates of face f no other candidate beats
BestCandidates(f) ==
    {k \in Candidates :
        \A h \in Candidates : CandidateConfidence(f, h) <= CandidateConfidence(f, k)}

\* C5: a face is labelled with an enrolled person's name only if that
\* candidate's confidence is strictly above the floor of 0.6; when no candidate
\* is above the floor the face is Unknown.
C5_MatchOnlyAboveFloor ==
    Matched =>
        \A f \in DOMAIN lastFrame[1].faces :
            LET face == lastFrame[1].faces[f]
            IN  /\ face.name # Unknown =>
                       /\ face.confidence > ConfidenceFloor
                       /\ \E k \in Candidates :
                             /\ lastFrame[1].persons[k].name = face.name
                             /\ CandidateConfidence(f, k) = face.confidence
                /\ (\A k \in Candidates : CandidateConfidence(f, k) <= ConfidenceFloor)
                       => face.name = Unknown

\* a face matched to one person while another candidate sat exactly on the floor
C5_Witness ==
    /\ Matched
    /\ \E f \in DOMAIN lastFrame[1].faces :
          /\ lastFrame[1].faces[f].name # Unknown
          /\ \E k \in Candidates : CandidateConfidence(f, k) = ConfidenceFloor

\* C6: with an empty gallery every detected face comes out Unknown, nothing is
\* raised, and the frame's results are published.
C6_EmptyGalleryUnknown ==
    (Matched /\ lastFrame[1].persons = << >>) =>
        /\ Len(lastFrame[1].faces) = Len(lastFrame[1].detection)
        /\ \A f \in DOMAIN lastFrame[1].faces :
              /\ lastFrame[1].faces[f].name = Unknown
              /\ lastFrame[1].faces[f].confidence = 0
        /\ recognizedFaces = lastFrame[1].faces

\* a face detected while no person is enrolled, published as Unknown
C6_Witness ==
    /\ Matched
    /\ persons = << >>
    /\ lastFrame[1].persons = << >>
    /\ Len(lastFrame[1].detection) = 1
    /\ Len(recognizedFaces) = 1
    /\ recognizedFaces[1].name = Unknown

\* C7: with a non-empty gallery an Unknown face still carries the best
\* candidate's confidence (and so its distance), not a zeroed field.
C7_UnknownCarriesDiagnostics ==
    (Matched /\ lastFrame[1].persons # << >>) =>
        \A f \in DOMAIN lastFrame[1].faces :
            lastFrame[1].faces[f].name = Unknown =>
                \E k \in BestCandidates(f) :
                    lastFrame[1].faces[f].confidence = CandidateConfidence(f, k)

\* the place of the person with this id in the persons table (insertion order)
InsertionRank(id) == CHOOSE k \in 1..Len(persons) : persons[k].id = id

\* C8: the scan returns a best (maximum-confidence) candidate, and among
\* tied best candidates the one enrolled earliest.
C8_EarliestInsertedWins ==
    (Matched /\ lastFrame[1].persons # << >>) =>
        \A f \in DOMAIN lastFrame[1].faces :
            lastFrame[1].faces[f].name # Unknown =>
                \E k \in BestCandidates(f) :
                    /\ lastFrame[1].faces[f].name = lastFrame[1].persons[k].name
                    /\ \A h \in BestCandidates(f) :
                          InsertionRank(lastFrame[1].persons[k].id)
                              <= InsertionRank(lastFrame[1].persons[h].id)

\* C9: two runs on the same detections with the same gallery give the same
\* faces (verdict, identity and confidence).
C9_Deterministic ==
    [][ ( /\ frameCount' = frameCount + 1
          /\ lastFrame # << >>
          /\ ~lastFrame[1].threw
          /\ ~lastFrame'[1].threw
          /\ lastFrame'[1].persons = lastFrame[1].persons
          /\ lastFrame'[1].detection = lastFrame[1].detection )
        => lastFrame'[1].faces = lastFrame[1].faces ]_vars

\* -------------------------------------------------- claims on the server
\* C10: remove(id) reports success if and only if a person with that id
\* existed; removing an unknown id reports not found and leaves the gallery
\* unchanged; after a successful remove the person is gone from the gallery.
C10_RemoveContract ==
    lastResp.route = "DELETE /api/persons" =>
        LET existed == lastResp.id \in PersonIds(lastResp.before)
        IN  /\ lastResp.status = 200 <=> existed
            /\ ~existed => (lastResp.status = 404 /\ persons = lastResp.before)
            /\ lastResp.status = 200 => lastResp.id \notin PersonIds(persons)

\* C11: after N enrollments answered with success and no removal, loading the
\* gallery yields exactly those N identities, each with the id and the name
\* reported at commit time and with its stored hash.
C11_RoundTrip ==
    ~removals =>
        \A list \in GetPersons :
            /\ Len(list) = Len(acked)
            /\ \A k \in 1..Len(acked) :
                  \E j \in 1..Len(list) :
                      /\ list[j].id = acked[k].id
                      /\ list[j].name = acked[k].name
                      /\ "encoding_hash" \in DOMAIN list[j]
                      /\ list[j].encoding_hash = acked[k].encoding_hash

\* C12: an enroll or delete that reports failure leaves the persons table as
\* it was before the call; one that reports success has made its whole change.
C12_AllOrNothing ==
    LET before == lastResp.before
    IN  /\ lastResp.route = "POST /api/enroll" =>
               IF lastResp.status = 200
               THEN /\ Len(persons) = Len(before) + 1
                    /\ SubSeq(persons, 1, Len(before)) = before
                    /\ persons[Len(persons)].id = lastResp.id
               ELSE persons = before
        /\ lastResp.route = "DELETE /api/persons" =>
               IF lastResp.status = 200
               THEN persons = DeleteWhereId(before, lastResp.id)
               ELSE persons = before

\* C13: whatever the order in which the server takes up concurrent enroll
\* requests, every one answered with success is in the persisted gallery
\* afterwards, and no request finds a half-written gallery (a person without
\* the session row of its enrollment).
C13_CommitsSerialized ==
    ~removals =>
        /\ \A k \in 1..Len(acked) : acked[k].id \in PersonIds(persons)
        /\ \A k \in 1..Len(persons) :
              \E h \in 1..Len(sessions) :
                  /\ sessions[h].person_id = persons[k].id
                  /\ sessions[h].action = "enroll"

\* C14: the hash stored with an identity is the digest of that identity's own
\* canonical encoding and display name.
C14_HashCoversEncodingAndName ==
    \A k \in 1..Len(persons) :
        persons[k].encoding_hash =
            Sha256Hex(<<Average(collectedFaces), persons[k].name>>)

\* a stored row in the clear: its name can be read off the table
InTheClear(row) == "name" \in DOMAIN row

\* C15: whatever is stored for the gallery is sealed, no field of an identity
\* in the clear, and a change made to the stored bytes never comes back from
\* a load as gallery data.
C15_SealedAtRest ==
    /\ \A k \in 1..Len(persons) : ~InTheClear(persons[k])
    /\ \A k \in 1..Len(lrPersons) : lrPersons[k].name \notin ForgedNames

\* C16: every frame goes to the primary detector first, and to the fallback
\* detector if and only if the primary found no face.
C16_PrimaryThenFallback ==
    lastFrame # << >> =>
        LET calls == lastFrame[1].detectors
            primaryFoundNone == ~lastFrame[1].threw /\ lastFrame[1].detection = << >>
        IN  /\ calls # << >>
            /\ calls[1] = "tinyFaceDetector"
            /\ (\E k \in 2..Len(calls) : calls[k] = "ssdMobilenetv1")
                   <=> primaryFoundNone

\* C17: in batch processing an image on which detection throws gives a result
\* marked with an error, an image without faces gives a result with an empty
\* face list and no error, and in both cases the loop goes on: every image of
\* the job has its result, in order.
C17_FailureDistinctFromNoFace ==
    /\ \A k \in 1..Len(processedResults) :
          LET r == processedResults[k]
          IN  /\ r.filename = FileName(k)
              /\ r.detected = "throw" =>
                     /\ "error" \in DOMAIN r
                     /\ r.faces = << >>
              /\ r.detected = "noFace" =>
                     /\ "error" \notin DOMAIN r
                     /\ r.faces = << >>
                     /\ r.totalFaces = 0
    /\ bpc = "loop" => Len(processedResults) = batchIdx
    /\ results # << >> => (results = processedResults /\ Len(results) = jobLen)

\* a finished job of three images: detection threw on the first, found no
\* face in the second and one face in the third
C17_Witness ==
    /\ ~processing
    /\ Len(results) = 3
    /\ results[1].detected = "throw"
    /\ results[2].detected = "noFace"
    /\ results[3].detected = "oneFace"

\* C18: a processed frame posts an unknown-faces event if and only if one of
\* its faces is Unknown; the request settling, delivered or not, leaves the
\* published faces as they were and lets the next frame be processed.
C18_FireAndForget ==
    /\ [](lastFrame # << >> =>
             (lastFrame[1].posted
                 <=> \E f \in DOMAIN lastFrame[1].faces :
                         lastFrame[1].faces[f].name = Unknown))
    /\ [][frameCount' # frameCount =>
             logPosts' = IF lastFrame'[1].posted THEN logPosts + 1 ELSE logPosts]_vars
    /\ [][(logResp # 0 /\ logResp' = 0) =>
             (recognizedFaces' = recognizedFaces /\ logPosts' = 0)]_vars
    /\ []((logFailed > 0 /\ logPosts = 0 /\ frameCount < MaxFrames)
             => ENABLED ProcessFrame)

\* a frame processed after the log request of the frame before it failed
C18_Witness ==
    /\ logFailed > 0
    /\ frameCount > logFailed
    /\ Matched
    /\ lastFrame[1].faces # << >>

\* ------------------------------------------------------- claims on consent
\* no component has captured, detected or processed anything
Quiet ==
    /\ epc = "idle"
    /\ ~isCapturing
    /\ frameCount = 0
    /\ lastFrame = << >>
    /\ ~processing
    /\ bpc = "idle"
    /\ files = << >>

\* C19: while consent has not been given only the consent dialog is rendered
\* and no component has started anything; consent is stored, and becomes
\* given, only by Continue pressed with the checkbox ticked (or, after a
\* reload, by the mount effect reading the consent so stored).
C19_ConsentMandatory ==
    /\ [](~consentGiven => (Rendered = {"ConsentModal"} /\ Quiet))
    /\ [][localStorage' # localStorage =>
             /\ accepted
             /\ "ConsentModal" \in Rendered
             /\ localStorage' = "accepted"
             /\ consentGiven']_vars
    /\ [][(~consentGiven /\ consentGiven') =>
             \/ accepted /\ localStorage' = "accepted"
             \/ ~mounted /\ mounted' /\ localStorage = "accepted"]_vars

\* consent accepted through the dialog, and an enrollment capture under way
C19_Witness ==
    /\ consentGiven
    /\ localStorage = "accepted"
    /\ "EnrollFace" \in Rendered
    /\ isCapturing

\* C20: consent once accepted is in localStorage and nothing clears it; a
\* page that holds it shows the tabs as soon as its mount effect has run, and
\* every reload leads to the tabs without the user accepting again.
C20_ConsentPersistent ==
    /\ [][localStorage = "accepted" => localStorage' = "accepted"]_vars
    /\ [](consentGiven => localStorage = "accepted")
    /\ []((mounted /\ localStorage = "accepted") => consentGiven)
    /\ (localStorage = "accepted" /\ ~mounted) ~> ("ConsentModal" \notin Rendered)

\* a reloaded page that holds the consent, before its mount effect
C20_Witness ==
    /\ localStorage = "accepted"
    /\ ~mounted
    /\ ~consentGiven

\* ----------------------------------------------- claims on the live session
\* C21: once Start Recognition has been pressed with the models loaded, a
\* frame is processed at some time, unless the user presses Stop before.
C21_StartProcessesFrames ==
    (isActive /\ modelsLoaded) ~> (frameCount > 0 \/ ~isActive)

PostedNames == { Trim(n) : n \in TypedNames }

\* a request body made of a name, an action label and a SHA-256 digest only
NameLabelDigestOnly(body) ==
    /\ DOMAIN body \subseteq {"name", "encodingHash", "action", "personName"}
    /\ "name" \in DOMAIN body => body.name \in PostedNames
    /\ "encodingHash" \in DOMAIN body =>
           /\ Len(body.encodingHash) = 2
           /\ body.encodingHash[1] = "sha256"
    /\ "action" \in DOMAIN body => body.action = "detected_unknown_faces"
    /\ "personName" \in DOMAIN body => body.personName = << >>

\* C22: every body the client has posted, to /api/enroll or to /api/logs,
\* holds a name, an action label and a SHA-256 digest at most: no image and
\* no descriptor; the request in flight is one of them.
C22_OnlyNameLabelDigestSent ==
    /\ \A k \in 1..Len(sent) : NameLabelDigestOnly(sent[k])
    /\ enrollReq # << >> => \E k \in 1..Len(sent) : sent[k] = enrollReq[1]

\* an enrollment has been posted and stored, the gallery loaded from the
\* server, and a frame with an Unknown face has posted its log entry
C22_Witness ==
    /\ \E k \in 1..Len(sent) : "encodingHash" \in DOMAIN sent[k]
    /\ \E k \in 1..Len(sent) : "action" \in DOMAIN sent[k]
    /\ lrPersons # << >>

\* ------------------------------------------------- claims on the gallery
\* C23: no two rows of the persons table share an id; an enrollment that is
\* answered with success has added a row under an id no row had; and a name
\* already in the table can be enrolled again: the request, its statements
\* completing, is answered with success and adds a second row.
C23_IdsUniqueNamesFree ==
    /\ [](\A j, k \in 1..Len(persons) :
             j # k => persons[j].id # persons[k].id)
    /\ [][(db /\ reqCount' # reqCount /\ lastResp'.status = 200
              /\ lastResp'.route = "POST /api/enroll") =>
             /\ Len(persons') = Len(persons) + 1
             /\ persons'[Len(persons')].id = lastResp'.id
             /\ lastResp'.id \notin PersonIds(persons)]_vars
    /\ [](\A k \in 1..Len(persons) :
             (reqCount < MaxRequests /\ Len(persons) < MaxPersons) =>
                 ENABLED ( /\ EnrollRequest([name |-> persons[k].name,
                                             encodingHash |-> <<"h1">>], "none")
                           /\ lastResp'.status = 200
                           /\ Len(persons') = Len(persons) + 1
                           /\ persons'[Len(persons')].name = persons[k].name
                           /\ persons'[Len(persons')].id # persons[k].id ))

\* after a removal, two identities with the same display name
C23_Witness ==
    /\ removals
    /\ Len(persons) = 2
    /\ persons[1].name = persons[2].name
    /\ persons[1].id # persons[2].id

\* the steps of a running handleEnroll
SessionStep ==
    \/ \E o \in {"null", "throw", "steady", "bright"} : CaptureFrame(o)
    \/ FinishCapture
    \/ \E f \in IoFailures : ServeEnroll(f)
    \/ EnrollNetworkError
    \/ EnrollSettled

\* C24: an enrollment session that has not set the capturing flag back can
\* still go on (so that it comes to set it back), and a session ended by a
\* failure of the detector tells the user so.
C24_SessionTerminates ==
    /\ isCapturing => ENABLED SessionStep
    /\ epc = "rejected" => status \notin {"Capturing frame", "Starting enrollment..."}

\* the steps of a running processImages
BatchStep ==
    \/ \E o \in ImageOutcomes, m \in Matches : ProcessImage(o, m)
    \/ FinishBatch

\* C26: a batch job that has not set the processing flag back can still go
\* on, and a finished job has one result for each of its files, in file order.
C26_BatchTerminates ==
    /\ processing => ENABLED BatchStep
    /\ (~processing /\ results # << >>) =>
           /\ Len(results) = jobLen
           /\ \A k \in 1..Len(results) : results[k].filename = FileName(k)

Blank(name) == \A k \in 1..Len(name) : name[k] = " "

\* an enroll body without a name or without a hash
Incomplete(body) ==
    \/ "name" \notin DOMAIN body
    \/ "encodingHash" \notin DOMAIN body
    \/ body.name = << >>
    \/ body.encodingHash = << >>

\* C28: an enroll request without name or hash can only be answered 400 with
\* both tables as they were; and handleEnroll with a blank name starts no
\* session: no frame is captured and nothing is posted.
C28_IncompleteRejected ==
    /\ [](reqCount < MaxRequests =>
             \A body \in {b \in EnrollBodies : Incomplete(b)}, f \in IoFailures :
                 /\ ENABLED EnrollRequest(body, f)
                 /\ ~ENABLED ( /\ EnrollRequest(body, f)
                               /\ \/ lastResp'.status # 400
                                  \/ persons' # persons
                                  \/ sessions' # sessions ))
    /\ [][(reqCount' # reqCount /\ lastResp'.status = 400) =>
             (persons' = persons /\ sessions' = sessions)]_vars
    /\ [][(epc = "idle" /\ Blank(personName)) =>
             /\ epc' = "idle"
             /\ isCapturing' = FALSE
             /\ frameIdx' = frameIdx
             /\ collectedFaces' = collectedFaces
             /\ enrollReq' = << >>
             /\ sent' = sent]_vars
    /\ [](\A k \in 1..Len(sent) :
             "name" \in DOMAIN sent[k] => ~Blank(sent[k].name))

\* a request without a hash answered 400 with a person in the table, and
\* handleEnroll turned away with a name of one blank
C28_Witness ==
    /\ lastResp.status = 400
    /\ persons # << >>
    /\ personName = <<" ">>
    /\ status = "Please enter a name"
====
